---- MODULE Spec2Model ----
(***************************************************************************)
(* Model of GenerateTextures.py: one run of main() over an input tree of   *)
(* textures, producing the PS2 (flat) and Wii (tile) output trees.         *)
(*                                                                         *)
(* File names are records [base, sfx, ext]: the text                       *)
(*     base ++ "_" ++ sfx[1] ++ ... ++ "_" ++ sfx[n] ++ ext                *)
(* so that "a_1.png" is [base |-> "a", sfx |-> <<1>>, ext |-> ".png"].     *)
(* Paths are sequences of names, relative to the root of their tree; in    *)
(* the output file system the component ".." at the head of a path is the  *)
(* parent of OUTPUT_ROOT, that is BASE_DIR.                                *)
(***************************************************************************)
EXTENDS Integers, Sequences, FiniteSets, TLC

VARIABLES
    pc,                    \* position of main(): which statement runs next
    inDirs, inFiles,       \* the tree under INPUT_ROOT: directories, files
    APPLY_OPACITY,         \* configuration switch, line 18
    APPLY_MAPPING_TO_WII,  \* configuration switch, line 17
    outDirs, outFiles,     \* the tree under OUTPUT_ROOT: directories, files (and
                           \* the files the run wrote elsewhere, paths from "..")
    mappings,              \* dict built by read_mappings: set of <<key, stem>>
    visited, dirpath,      \* os.walk: directories yielded so far, the current one
    filenames,             \* files of dirpath the inner loop has not reached yet
    fname,                 \* the file being processed
    scratch, scratchFiles, \* temporary directories on disk, and the files in them
    ps2_dest_path,         \* path of the flat copy of fname
    new_pngs,              \* tiles gathered from temp_out and not moved yet
    processed, skipped,    \* the run's counters
    returncode,            \* exit status of the splitter run last, -1 when none ran
    raised,                \* the call whose exception left main(), "" when none did
    resets,                \* history: number of executions of ensure_clean_output
    produced,              \* history: [src, tile] for each .png the splitter wrote
    r_dir, r_name, r_full, \* a single call of unique_dest: listing, name, result
    m_file                 \* a single call of read_mappings: the file it was given

mainVars == <<pc, inDirs, inFiles, APPLY_OPACITY, APPLY_MAPPING_TO_WII, outDirs,
              outFiles, mappings, visited, dirpath, filenames, fname, scratch,
              scratchFiles, ps2_dest_path, new_pngs, processed, skipped, returncode,
              raised, resets, produced>>
resolveVars == <<r_dir, r_name, r_full>>
loadVars == <<m_file>>
callVars == <<resolveVars, loadVars>>
vars == <<mainVars, callVars>>

----------------------------------------------------------------------------
(* Bounds of the model. *)

MaxFiles == 2     \* files in the input tree
MaxTiles == 1     \* files the splitter writes for one source
MaxEntries == 1   \* entries of the [Mappings] section
MaxSuffix == 2    \* counter suffixes present in a directory given to unique_dest
MaxLoaded == 3    \* entries of the file given to a single call of read_mappings

----------------------------------------------------------------------------
(* Names, paths and the string functions the program applies to them. *)

Name(b, s, e) == [base |-> b, sfx |-> s, ext |-> e]

None == Name("", <<>>, "")

\* str.lower() on the texts the model uses
lower(s) ==
    CASE s = "A" -> "a"
      [] s = "B" -> "b"
      [] s = "B " -> "b "
      [] s = ".PNG" -> ".png"
      [] OTHER -> s

\* str.strip() on the texts the model uses
strip(s) ==
    CASE s = "b " -> "b"
      [] s = "B " -> "B"
      [] OTHER -> s

\* os.path.splitext(name)[0]: the name without its extension
splitext_stem(n) == [base |-> n.base, sfx |-> n.sfx]

\* os.path.splitext(name)[1]
splitext_ext(n) == n.ext

\* stem + ext
WithExt(stem, e) == Name(stem.base, stem.sfx, e)

\* name.lower().endswith('.png'), for a name with a non-empty stem
is_png(n) == lower(n.ext) = ".png"

\* lines 12-14: BASE_DIR seen from OUTPUT_ROOT, and INPUT_ROOT below it
UP == Name("..", <<>>, "")
INPUT == Name("RemadeTextures", <<>>, "")
input_root == <<UP, INPUT>>

\* the text of a name that leaves its directory: two parent components, then the
\* folder name of INPUT_ROOT
UpBase == "../../RemadeTextures/x"

\* the directory ".." resolves to inside the existing directory dir
parent(dir) ==
    IF dir = <<>> \/ dir[Len(dir)] = UP
    THEN Append(dir, UP)
    ELSE SubSeq(dir, 1, Len(dir) - 1)

\* os.path.join(dir, name), as the file system resolves the joined path: the
\* separators and parent components of the name are followed
join(dir, n) ==
    IF n.base = UpBase
    THEN Append(Append(parent(parent(dir)), INPUT), [n EXCEPT !.base = "x"])
    ELSE Append(dir, n)

\* os.path.basename(path)
basename(p) == p[Len(p)]

\* os.path.dirname(path)
dirname(p) == SubSeq(p, 1, Len(p) - 1)

Prefixes(p) == {SubSeq(p, 1, k) : k \in 0..Len(p)}

WII == Name("Wii", <<>>, "")
PS2 == Name("PS2", <<>>, "")
wii_root == <<WII>>
ps2_root == <<PS2>>

\* lines 115-119: the mirrored directory of an input directory
wii_sub(d) == wii_root \o d
ps2_sub(d) == ps2_root \o d

----------------------------------------------------------------------------
(* unique_dest, lines 55-64.  paths is the set of paths that exist.        *)

\* f"{base}_{i}{ext}"
Candidate(filename, i) ==
    Name(filename.base, Append(filename.sfx, i), filename.ext)

RECURSIVE unique_loop(_, _, _, _)

\* a resolver whose counter starts one too high
unique_loop_skip(paths, dest_dir, filename, i) ==
    LET full == join(dest_dir, Candidate(filename, i + 1))
    IN  IF full \in paths
        THEN unique_loop(paths, dest_dir, filename, i + 1)
        ELSE full

\* the while loop, lines 60-63, entered with counter i
unique_loop(paths, dest_dir, filename, i) ==
    LET full == join(dest_dir, Candidate(filename, i))
    IN  IF full \in paths
        THEN unique_loop(paths, dest_dir, filename, i + 1)
        ELSE full

\* a resolver that never looks at the directory
unique_dest_blind(paths, dest_dir, filename) == join(dest_dir, filename)

unique_dest(paths, dest_dir, filename) ==
    LET full == join(dest_dir, filename)
    IN  IF full \in paths
        THEN unique_loop(paths, dest_dir, filename, 1)
        ELSE full

----------------------------------------------------------------------------
(* The file systems.  A file of an output or scratch directory holds the   *)
(* data [src, alpha, tile]: the input file it was made from, what the      *)
(* opacity filter did to it, and the tile name the splitter gave it.       *)

SrcFile(d, n) == [dir |-> d, name |-> n]

NoFile == SrcFile(<<>>, None)

Data(f, a, t) == [src |-> f, alpha |-> a, tile |-> t]

\* a file left under OUTPUT_ROOT by an earlier run
OldData == Data(NoFile, "old", None)

FileNames == {Name("a", <<>>, ".png"), Name("B", <<>>, ".PNG"), Name("c", <<>>, ".txt")}

\* the one subdirectory name of the input trees: a directory may be called a.png
SubDirName == Name("a", <<>>, ".png")

InputDirSets == {{<<>>}, {<<>>, <<SubDirName>>}}

InputFileSets(dirs) ==
    {fs \in SUBSET {SrcFile(d, n) : d \in dirs, n \in FileNames} :
        /\ Cardinality(fs) <= MaxFiles
        /\ \A f \in fs : join(f.dir, f.name) \notin dirs}

\* what the splitter may write into its output directory
TileNames == {Name("a", <<>>, ".png"), Name("n", <<>>, ".txt")}

TileSets == {ts \in SUBSET TileNames : Cardinality(ts) <= MaxTiles}

OldOutputs ==
    { [dirs |-> {}, files |-> {}],
      [dirs |-> {<<>>, ps2_root, join(ps2_root, Name("old", <<>>, ""))},
       files |-> {[path |-> join(ps2_root, Name("a", <<>>, ".png")), data |-> OldData]}] }

\* os.path.exists over a tree
Paths(dirs, files) == dirs \cup {f.path : f \in files}

OutPaths == Paths(outDirs, outFiles)

\* the directories and files of the input tree, as paths of the output file system
InDirPaths == {<<UP>>} \cup {input_root \o d : d \in inDirs}
InFilePaths == {input_root \o Append(f.dir, f.name) : f \in inFiles}

\* os.path.exists, os.path.isdir
Exists == OutPaths \cup InDirPaths \cup InFilePaths
isdir(p) == p \in outDirs \cup InDirPaths

\* os.makedirs(path, exist_ok=True): the directories afterwards; it raises when the
\* path, or one of its parents, is a file
makedirs_raises(files, path) ==
    \E f \in files : f.path \in Prefixes(path)

makedirs(dirs, path) == dirs \cup Prefixes(path)

\* p is path or lies below it; a path that starts with ".." is not below OUTPUT_ROOT
Under(path, p) ==
    /\ path \in Prefixes(p)
    /\ path = <<>> => (p = <<>> \/ p[1] # UP)

\* shutil.rmtree(path) over a tree
rmtree_dirs(dirs, path) == {d \in dirs : ~Under(path, d)}
rmtree_files(files, path) == {f \in files : ~Under(path, f.path)}

\* writing a file: shutil.copy2 and shutil.move put the file inside dst when dst
\* is a directory, and replace dst when it is a file
WriteTarget(dirs, dst, srcname) == IF dst \in dirs THEN join(dst, srcname) ELSE dst

WriteFile(dirs, files, dst, srcname, data) ==
    LET target == WriteTarget(dirs, dst, srcname)
    IN  {f \in files : f.path # target} \cup {[path |-> target, data |-> data]}

----------------------------------------------------------------------------
(* find_tool_exe, lines 29-38: the tool folder is [isdir, files].          *)

ExeName == Name("DolphinTextureExtraction.tool", <<>>, ".exe")

ToolFolders ==
    { [isdir |-> FALSE, files |-> {}],
      [isdir |-> TRUE, files |-> {}],
      [isdir |-> TRUE, files |-> {Name("readme", <<>>, ".txt")}],
      [isdir |-> TRUE, files |-> {ExeName}] }

\* TRUE when find_tool_exe raises FileNotFoundError
find_tool_exe_raises(folder) ==
    \/ ~folder.isdir
    \/ {f \in folder.files : lower(f.ext) = ".exe"} = {}

----------------------------------------------------------------------------
(* read_mappings, lines 40-53: the mapping file is [isfile, entries], the  *)
(* entries of its [Mappings] section in file order.                        *)

Entry(k, v) == [key |-> k, val |-> v]

EntryUniverse ==
    {Entry(k, v) : k \in {"a", "B "},
                   v \in {Name("a", <<>>, ""), Name("x", <<>>, ".png"),
                          Name(UpBase, <<>>, "")}}

RECURSIVE SeqsUpTo(_, _)
SeqsUpTo(S, n) ==
    IF n = 0 THEN {<<>>}
    ELSE LET shorter == SeqsUpTo(S, n - 1)
         IN  shorter \cup {Append(q, e) : q \in {t \in shorter : Len(t) = n - 1}, e \in S}

MappingFiles ==
    {[isfile |-> FALSE, entries |-> <<>>]}
        \cup {[isfile |-> TRUE, entries |-> es] : es \in SeqsUpTo(EntryUniverse, MaxEntries)}

\* configparser's option name: stripped and lowercased (optionxform)
optionxform(k) == lower(strip(k))

\* cfg.read raises DuplicateOptionError (ConfigParser is strict by default)
cfg_read_raises(entries) ==
    \E i, j \in DOMAIN entries :
        i < j /\ optionxform(entries[i].key) = optionxform(entries[j].key)

\* m[key] = val
MapPut(m, k, v) == {e \in m : e[1] # k} \cup {<<k, v>>}

\* key in m, m[key]
HasKey(m, k) == \E e \in m : e[1] = k
Lookup(m, k) == (CHOOSE e \in m : e[1] = k)[2]

\* a key of the dict, as the stem it is compared with (the keys hold no "_")
KeyStem(text) == [base |-> text, sfx |-> <<>>]

RECURSIVE read_items(_, _, _)
\* the loop of lines 47-52 from entry i on
read_items(m, entries, i) ==
    IF i > Len(entries) THEN m
    ELSE LET key == lower(strip(optionxform(entries[i].key)))
             val == splitext_stem(entries[i].val)
         IN  read_items(IF key # "" THEN MapPut(m, KeyStem(key), val) ELSE m,
                        entries, i + 1)

read_mappings(file) ==
    IF ~file.isfile THEN {} ELSE read_items({}, file.entries, 1)

----------------------------------------------------------------------------
(* ensure_clean_output, lines 87-95. *)

\* an output reset that merges into what is there
ensure_clean_output_files_merge(dirs, files) == files

ensure_clean_output_files(dirs, files) ==
    IF <<>> \in dirs THEN rmtree_files(files, <<>>) ELSE files

ensure_clean_output_dirs(dirs) ==
    LET wiped == IF <<>> \in dirs THEN rmtree_dirs(dirs, <<>>) ELSE dirs
    IN  makedirs(makedirs(makedirs(wiped, <<>>), wii_root), ps2_root)

----------------------------------------------------------------------------
(* os.walk(INPUT_ROOT), line 114: top-down, a directory's files before its  *)
(* subdirectories, the entries of a directory in no particular order.       *)

Children(d) == {e \in inDirs : Len(e) = Len(d) + 1 /\ SubSeq(e, 1, Len(d)) = d}

FilesOf(d) == {f.name : f \in {g \in inFiles : g.dir = d}}

\* the directories os.walk may yield next
NextDirs ==
    IF visited = {} THEN {<<>>} \cap inDirs
    ELSE LET open == {p \in Prefixes(dirpath) : Children(p) \ visited # {}}
         IN  IF open = {} THEN {}
             ELSE LET deepest == CHOOSE p \in open : \A q \in open : Len(q) <= Len(p)
                  IN  Children(deepest) \ visited

\* where main() is after the body of the inner loop: the next file, or the next
\* directory when the files of this one are exhausted
LoopPc(rest) == IF rest = {} THEN "walk" ELSE "file"

----------------------------------------------------------------------------
(* The per-file processing, lines 123-191. *)

CurFile == SrcFile(dirpath, fname)

\* line 129
base_key(n) == [base |-> lower(n.base), sfx |-> n.sfx]

\* the temporary directories of a file: temp_src_dir (line 132), temp_out (line 145)
SrcTmp(f) == [kind |-> "src", owner |-> f]
OutTmp(f) == [kind |-> "out", owner |-> f]

TmpFile(t, n, d) == [tmp |-> t, name |-> n, data |-> d]

\* shutil.rmtree(tmp, ignore_errors=True)
rmtree_tmp(dirs, t) == dirs \ {t}
rmtree_tmp_files(files, t) == {f \in files : f.tmp # t}

\* the scratch copy temp_src_path
TempSrc == CHOOSE f \in scratchFiles : f.tmp = SrcTmp(CurFile) /\ f.name = fname

\* the finally clause, lines 189-191
finally_dirs(dirs, f) == rmtree_tmp(dirs, SrcTmp(f))
finally_files(files, f) == rmtree_tmp_files(files, SrcTmp(f))

\* lines 72-73: every alpha value of the image times 0.5
scale_alpha(alpha) ==
    CASE alpha = "full" -> "half"
      [] alpha = "half" -> "quarter"
      [] OTHER -> alpha

\* a filter that scales the alpha values twice
apply_half_opacity_twice(enabled, alpha) ==
    IF ~enabled THEN {alpha} ELSE {scale_alpha(scale_alpha(alpha)), alpha, "bad"}

\* apply_half_opacity, lines 66-77: what the scratch copy's alpha may be afterwards;
\* a failure is swallowed and leaves the file unmodified or partly written
apply_half_opacity(enabled, alpha) ==
    IF ~enabled THEN {alpha} ELSE {scale_alpha(alpha), alpha, "bad"}

\* gather_pngs, lines 79-85, over the files of a directory
gather_pngs(names) == {n \in names : is_png(n)}

\* a tile naming that does not look at APPLY_MAPPING_TO_WII
dest_name_unconditional(png_name, key) ==
    IF HasKey(mappings, key)
    THEN WithExt(Lookup(mappings, key), splitext_ext(png_name))
    ELSE png_name

\* lines 163-167: the name a tile is placed under
dest_name(png_name, key) ==
    IF APPLY_MAPPING_TO_WII /\ HasKey(mappings, key)
    THEN WithExt(Lookup(mappings, key), splitext_ext(png_name))
    ELSE png_name

\* lines 177-178
mapped_name(key) == WithExt(Lookup(mappings, key), ".png")

----------------------------------------------------------------------------
(* The run of main(), lines 101-197. *)

ResolveIdle ==
    /\ r_dir = {}
    /\ r_name = None
    /\ r_full = <<>>

LoadIdle == m_file = [isfile |-> FALSE, entries |-> <<>>]

Init ==
    /\ pc = "start"
    /\ inDirs \in InputDirSets
    /\ inFiles \in InputFileSets(inDirs)
    /\ APPLY_OPACITY \in BOOLEAN
    /\ APPLY_MAPPING_TO_WII \in BOOLEAN
    /\ \E old \in OldOutputs : outDirs = old.dirs /\ outFiles = old.files
    /\ mappings = {}
    /\ visited = {}
    /\ dirpath = <<>>
    /\ filenames = {}
    /\ fname = None
    /\ scratch = {}
    /\ scratchFiles = {}
    /\ ps2_dest_path = <<>>
    /\ new_pngs = {}
    /\ processed = 0
    /\ skipped = 0
    /\ returncode = -1
    /\ raised = ""
    /\ resets = 0
    /\ produced = {}
    /\ ResolveIdle
    /\ LoadIdle

\* a main() that resets the output root before it looks for the tool
FindTool_after_reset ==
    /\ pc = "start"
    /\ \E folder \in ToolFolders :
        IF find_tool_exe_raises(folder)
        THEN /\ pc' = "crashed"
             /\ raised' = "find_tool_exe"
             /\ outDirs' = ensure_clean_output_dirs(outDirs)
             /\ outFiles' = ensure_clean_output_files(outDirs, outFiles)
        ELSE /\ pc' = "mappings"
             /\ raised' = raised
             /\ UNCHANGED <<outDirs, outFiles>>
    /\ UNCHANGED <<returncode, inDirs, inFiles, produced, APPLY_OPACITY, APPLY_MAPPING_TO_WII,
                   mappings, visited, dirpath, filenames, fname, scratch,
                   scratchFiles, ps2_dest_path, new_pngs, processed, skipped, resets>>
    /\ UNCHANGED callVars

\* line 102: an exception of find_tool_exe ends the run
FindTool ==
    /\ pc = "start"
    /\ \E folder \in ToolFolders :
        IF find_tool_exe_raises(folder)
        THEN pc' = "crashed" /\ raised' = "find_tool_exe"
        ELSE pc' = "mappings" /\ raised' = raised
    /\ UNCHANGED <<returncode, inDirs, inFiles, produced, APPLY_OPACITY, APPLY_MAPPING_TO_WII, outDirs,
                   outFiles, mappings, visited, dirpath, filenames, fname, scratch,
                   scratchFiles, ps2_dest_path, new_pngs, processed, skipped, resets>>
    /\ UNCHANGED callVars

\* line 103
ReadMappings ==
    /\ pc = "mappings"
    /\ \E file \in MappingFiles :
        IF file.isfile /\ cfg_read_raises(file.entries)
        THEN pc' = "crashed" /\ raised' = "cfg.read" /\ mappings' = mappings
        ELSE pc' = "reset" /\ raised' = raised /\ mappings' = read_mappings(file)
    /\ UNCHANGED <<returncode, inDirs, inFiles, produced, APPLY_OPACITY, APPLY_MAPPING_TO_WII, outDirs,
                   outFiles, visited, dirpath, filenames, fname, scratch,
                   scratchFiles, ps2_dest_path, new_pngs, processed, skipped, resets>>
    /\ UNCHANGED callVars

\* line 108; shutil.rmtree(root) may raise, which ends the run
EnsureCleanOutput ==
    /\ pc = "reset"
    /\ \/ /\ outDirs' = ensure_clean_output_dirs(outDirs)
          /\ outFiles' = ensure_clean_output_files(outDirs, outFiles)
          /\ resets' = resets + 1
          /\ pc' = "walk"
          /\ UNCHANGED raised
       \/ /\ <<>> \in outDirs
          /\ pc' = "crashed"
          /\ raised' = "shutil.rmtree"
          /\ UNCHANGED <<outDirs, outFiles, resets>>
    /\ UNCHANGED <<returncode, inDirs, inFiles, produced, APPLY_OPACITY, APPLY_MAPPING_TO_WII, mappings,
                   visited, dirpath, filenames, fname, scratch, scratchFiles,
                   ps2_dest_path, new_pngs, processed, skipped>>
    /\ UNCHANGED callVars

\* lines 114-121: os.walk yields a directory and both mirrors are created;
\* os.makedirs raises FileExistsError when the path is a file
WalkDir ==
    /\ pc = "walk"
    /\ \E d \in NextDirs :
        /\ visited' = visited \cup {d}
        /\ dirpath' = d
        /\ filenames' = FilesOf(d)
        /\ IF makedirs_raises(outFiles, wii_sub(d))
           THEN /\ pc' = "crashed"
                /\ raised' = "os.makedirs"
                /\ UNCHANGED outDirs
           ELSE IF makedirs_raises(outFiles, ps2_sub(d))
           THEN /\ pc' = "crashed"
                /\ raised' = "os.makedirs"
                /\ outDirs' = makedirs(outDirs, wii_sub(d))
           ELSE /\ outDirs' = makedirs(makedirs(outDirs, wii_sub(d)), ps2_sub(d))
                /\ pc' = LoopPc(FilesOf(d))
                /\ UNCHANGED raised
    /\ UNCHANGED <<returncode, inDirs, inFiles, produced, APPLY_OPACITY, APPLY_MAPPING_TO_WII, outFiles,
                   mappings, fname, scratch, scratchFiles, ps2_dest_path, new_pngs,
                   processed, skipped, resets>>
    /\ UNCHANGED callVars

\* lines 123-132: the next file of the directory; a non-image file is skipped, an
\* image file gets its temp_src_dir
NextFile ==
    /\ pc = "file"
    /\ \E f \in filenames :
        /\ fname' = f
        /\ filenames' = filenames \ {f}
        /\ IF ~is_png(f)
           THEN /\ skipped' = skipped + 1
                /\ pc' = LoopPc(filenames \ {f})
                /\ UNCHANGED scratch
           ELSE /\ scratch' = scratch \cup {SrcTmp(SrcFile(dirpath, f))}
                /\ pc' = "copy"
                /\ UNCHANGED skipped
    /\ UNCHANGED <<raised, returncode, inDirs, inFiles, produced, APPLY_OPACITY, APPLY_MAPPING_TO_WII, outDirs,
                   outFiles, mappings, visited, dirpath, scratchFiles,
                   ps2_dest_path, new_pngs, processed, resets>>
    /\ UNCHANGED callVars

\* lines 134-135: shutil.copy2 into temp_src_dir; when it raises, the finally
\* clause runs and the exception ends the run
ScratchCopy ==
    /\ pc = "copy"
    /\ \/ /\ scratchFiles' = scratchFiles
                \cup {TmpFile(SrcTmp(CurFile), fname, Data(CurFile, "full", None))}
          /\ pc' = "opacity"
          /\ UNCHANGED <<scratch, raised>>
       \/ /\ scratch' = finally_dirs(scratch, CurFile)
          /\ scratchFiles' = finally_files(scratchFiles, CurFile)
          /\ pc' = "crashed"
          /\ raised' = "copy2.scratch"
    /\ UNCHANGED <<returncode, inDirs, inFiles, produced, APPLY_OPACITY, APPLY_MAPPING_TO_WII, outDirs,
                   outFiles, mappings, visited, dirpath, filenames, fname,
                   ps2_dest_path, new_pngs, processed, skipped, resets>>
    /\ UNCHANGED callVars

\* line 138
ApplyOpacity ==
    /\ pc = "opacity"
    /\ \E a \in apply_half_opacity(APPLY_OPACITY, TempSrc.data.alpha) :
        scratchFiles' = (scratchFiles \ {TempSrc})
            \cup {TmpFile(SrcTmp(CurFile), fname, Data(CurFile, a, None))}
    /\ pc' = "flat"
    /\ UNCHANGED <<raised, returncode, inDirs, inFiles, produced, APPLY_OPACITY, APPLY_MAPPING_TO_WII, outDirs,
                   outFiles, mappings, visited, dirpath, filenames, fname, scratch,
                   ps2_dest_path, new_pngs, processed, skipped, resets>>
    /\ UNCHANGED callVars

\* lines 141-142: the flat copy into the PS2 mirror
FlatCopy ==
    /\ pc = "flat"
    /\ LET dest == unique_dest(Exists, ps2_sub(dirpath), fname)
       IN  \/ /\ outFiles' = WriteFile(outDirs, outFiles, dest, fname, TempSrc.data)
              /\ ps2_dest_path' = dest
              /\ pc' = "split"
              /\ UNCHANGED <<scratch, scratchFiles, raised>>
           \/ /\ scratch' = finally_dirs(scratch, CurFile)
              /\ scratchFiles' = finally_files(scratchFiles, CurFile)
              /\ pc' = "crashed"
              /\ raised' = "copy2.flat"
              /\ UNCHANGED <<outFiles, ps2_dest_path>>
    /\ UNCHANGED <<returncode, inDirs, inFiles, produced, APPLY_OPACITY, APPLY_MAPPING_TO_WII, outDirs,
                   mappings, visited, dirpath, filenames, fname, new_pngs,
                   processed, skipped, resets>>
    /\ UNCHANGED callVars

\* the tiles the splitter wrote into temp_out, made from the scratch copy
Tiles(ts) == {TmpFile(OutTmp(CurFile), t, Data(CurFile, TempSrc.data.alpha, t)) : t \in ts}

\* a splitter step whose except clause has no continue: the file goes on to step 4
RunSplitter_fallthrough ==
    /\ pc = "split"
    /\ \/ /\ scratch' = finally_dirs(scratch \cup {OutTmp(CurFile)}, CurFile)
          /\ scratchFiles' = finally_files(scratchFiles, CurFile)
          /\ pc' = "crashed"
          /\ raised' = "subprocess.run"
          /\ returncode' = -1
          /\ UNCHANGED <<new_pngs, produced>>
       \/ \E ts \in TileSets :
          /\ scratch' = finally_dirs(
                            rmtree_tmp(scratch \cup {OutTmp(CurFile)}, OutTmp(CurFile)),
                            CurFile)
          /\ scratchFiles' = finally_files(
                                 rmtree_tmp_files(scratchFiles \cup Tiles(ts), OutTmp(CurFile)),
                                 CurFile)
          /\ pc' = "finish"
          /\ returncode' = 1
          /\ UNCHANGED <<new_pngs, raised, produced>>
       \/ \E ts \in TileSets :
          /\ scratch' = scratch \cup {OutTmp(CurFile)}
          /\ scratchFiles' = scratchFiles \cup Tiles(ts)
          /\ new_pngs' = gather_pngs(ts)
          /\ produced' = produced \cup {[src |-> CurFile, tile |-> t] : t \in gather_pngs(ts)}
          /\ pc' = IF gather_pngs(ts) = {} THEN "finish" ELSE "tiles"
          /\ returncode' = 0
          /\ UNCHANGED raised
    /\ UNCHANGED <<inDirs, inFiles, APPLY_OPACITY, APPLY_MAPPING_TO_WII, outDirs,
                   outFiles, mappings, visited, dirpath, filenames, fname,
                   ps2_dest_path, processed, skipped, resets>>
    /\ UNCHANGED callVars

\* lines 145-158: temp_out is created and the splitter runs on the scratch copy.
\* subprocess.run raises OSError when the tool cannot be launched, which no except
\* clause catches, and CalledProcessError when the tool exits non-zero
RunSplitter ==
    /\ pc = "split"
    /\ \/ /\ scratch' = finally_dirs(scratch \cup {OutTmp(CurFile)}, CurFile)
          /\ scratchFiles' = finally_files(scratchFiles, CurFile)
          /\ pc' = "crashed"
          /\ raised' = "subprocess.run"
          /\ returncode' = -1
          /\ UNCHANGED <<new_pngs, produced>>
       \/ \E ts \in TileSets :
          /\ scratch' = finally_dirs(
                            rmtree_tmp(scratch \cup {OutTmp(CurFile)}, OutTmp(CurFile)),
                            CurFile)
          /\ scratchFiles' = finally_files(
                                 rmtree_tmp_files(scratchFiles \cup Tiles(ts), OutTmp(CurFile)),
                                 CurFile)
          /\ pc' = LoopPc(filenames)
          /\ returncode' = 1
          /\ UNCHANGED <<new_pngs, raised, produced>>
       \/ \E ts \in TileSets :
          /\ scratch' = scratch \cup {OutTmp(CurFile)}
          /\ scratchFiles' = scratchFiles \cup Tiles(ts)
          /\ new_pngs' = gather_pngs(ts)
          /\ produced' = produced \cup {[src |-> CurFile, tile |-> t] : t \in gather_pngs(ts)}
          /\ pc' = IF gather_pngs(ts) = {} THEN "finish" ELSE "tiles"
          /\ returncode' = 0
          /\ UNCHANGED raised
    /\ UNCHANGED <<inDirs, inFiles, APPLY_OPACITY, APPLY_MAPPING_TO_WII, outDirs,
                   outFiles, mappings, visited, dirpath, filenames, fname,
                   ps2_dest_path, processed, skipped, resets>>
    /\ UNCHANGED callVars

\* lines 160-170, one turn of the loop: a tile is moved into the Wii mirror; when
\* shutil.move raises, the finally clause runs and the exception ends the run
MoveTile ==
    /\ pc = "tiles"
    /\ \E png_name \in new_pngs :
        LET tile == CHOOSE f \in scratchFiles :
                        f.tmp = OutTmp(CurFile) /\ f.name = png_name
            dest_full == unique_dest(Exists, wii_sub(dirpath),
                                     dest_name(png_name, base_key(fname)))
        IN  \/ /\ isdir(dirname(dest_full))
               /\ outFiles' = WriteFile(outDirs, outFiles, dest_full, png_name, tile.data)
               /\ scratchFiles' = scratchFiles \ {tile}
               /\ new_pngs' = new_pngs \ {png_name}
               /\ pc' = IF new_pngs \ {png_name} = {} THEN "finish" ELSE "tiles"
               /\ UNCHANGED <<scratch, raised>>
            \/ /\ scratch' = finally_dirs(scratch, CurFile)
               /\ scratchFiles' = finally_files(scratchFiles, CurFile)
               /\ pc' = "crashed"
               /\ raised' = "shutil.move"
               /\ UNCHANGED <<outFiles, new_pngs>>
    /\ UNCHANGED <<returncode, inDirs, inFiles, produced, APPLY_OPACITY, APPLY_MAPPING_TO_WII, outDirs,
                   mappings, visited, dirpath, filenames, fname, ps2_dest_path,
                   processed, skipped, resets>>
    /\ UNCHANGED callVars

\* os.replace(src, dst) over the output tree; dst is no directory
replace(files, src, dst) ==
    LET moved == CHOOSE f \in files : f.path = src
    IN  {f \in files : f.path # src /\ f.path # dst}
            \cup {[path |-> dst, data |-> moved.data]}

\* a last step whose rename has no except clause: a failure of os.replace leaves
\* main() after the finally clause
Finish_uncaught ==
    /\ pc = "finish"
    /\ LET key == base_key(fname)
           mapped_full == unique_dest(Exists, ps2_sub(dirpath), mapped_name(key))
       IN  \/ /\ ~HasKey(mappings, key)
              /\ processed' = processed + 1
              /\ pc' = LoopPc(filenames)
              /\ UNCHANGED <<outFiles, ps2_dest_path, raised>>
           \/ /\ HasKey(mappings, key)
              /\ isdir(dirname(mapped_full))
              /\ \E f \in outFiles : f.path = ps2_dest_path
              /\ outFiles' = replace(outFiles, ps2_dest_path, mapped_full)
              /\ ps2_dest_path' = mapped_full
              /\ processed' = processed + 1
              /\ pc' = LoopPc(filenames)
              /\ UNCHANGED raised
           \/ /\ HasKey(mappings, key)
              /\ pc' = "crashed"
              /\ raised' = "os.replace"
              /\ UNCHANGED <<outFiles, ps2_dest_path, processed>>
    /\ scratch' = finally_dirs(rmtree_tmp(scratch, OutTmp(CurFile)), CurFile)
    /\ scratchFiles' = finally_files(rmtree_tmp_files(scratchFiles, OutTmp(CurFile)), CurFile)
    /\ UNCHANGED <<returncode, inDirs, inFiles, produced, APPLY_OPACITY, APPLY_MAPPING_TO_WII, outDirs,
                   mappings, visited, dirpath, filenames, fname, new_pngs,
                   skipped, resets>>
    /\ UNCHANGED callVars

\* lines 173-191: temp_out is removed, the flat copy is renamed when the mapping
\* has the file's key (a failure of os.replace is swallowed), the file is counted
\* and the finally clause removes temp_src_dir
Finish ==
    /\ pc = "finish"
    /\ LET key == base_key(fname)
           mapped_full == unique_dest(Exists, ps2_sub(dirpath), mapped_name(key))
       IN  \/ /\ ~HasKey(mappings, key)
              /\ UNCHANGED <<outFiles, ps2_dest_path>>
           \/ /\ HasKey(mappings, key)
              /\ isdir(dirname(mapped_full))
              /\ \E f \in outFiles : f.path = ps2_dest_path
              /\ outFiles' = replace(outFiles, ps2_dest_path, mapped_full)
              /\ ps2_dest_path' = mapped_full
           \/ /\ HasKey(mappings, key)
              /\ UNCHANGED <<outFiles, ps2_dest_path>>
    /\ processed' = processed + 1
    /\ scratch' = finally_dirs(rmtree_tmp(scratch, OutTmp(CurFile)), CurFile)
    /\ scratchFiles' = finally_files(rmtree_tmp_files(scratchFiles, OutTmp(CurFile)), CurFile)
    /\ pc' = LoopPc(filenames)
    /\ UNCHANGED <<raised, returncode, inDirs, inFiles, produced, APPLY_OPACITY, APPLY_MAPPING_TO_WII, outDirs,
                   mappings, visited, dirpath, filenames, fname, new_pngs,
                   skipped, resets>>
    /\ UNCHANGED callVars

\* lines 193-197: the walk is exhausted and the summary is printed
Summary ==
    /\ pc = "walk"
    /\ NextDirs = {}
    /\ pc' = "done"
    /\ UNCHANGED <<raised, returncode, inDirs, inFiles, produced, APPLY_OPACITY, APPLY_MAPPING_TO_WII, outDirs,
                   outFiles, mappings, visited, dirpath, filenames, fname, scratch,
                   scratchFiles, ps2_dest_path, new_pngs, processed, skipped, resets>>
    /\ UNCHANGED callVars

Next ==
    \/ FindTool
    \/ ReadMappings
    \/ EnsureCleanOutput
    \/ WalkDir
    \/ NextFile
    \/ ScratchCopy
    \/ ApplyOpacity
    \/ FlatCopy
    \/ RunSplitter
    \/ MoveTile
    \/ Finish
    \/ Summary

Spec == Init /\ [][Next]_vars

----------------------------------------------------------------------------
(* unique_dest on its own: a directory listing and a desired name. *)

ResolveDir == ps2_root

ResolveNames == {Name("a", <<>>, ".png"), Name("a", <<1>>, ".png"), Name("x", <<>>, "")}

ResolveUniverse ==
    ResolveNames \cup {Candidate(n, k) : n \in ResolveNames, k \in 1..MaxSuffix}

InitResolve ==
    /\ pc = "resolve"
    /\ inDirs = {<<>>}
    /\ inFiles = {}
    /\ APPLY_OPACITY = TRUE
    /\ APPLY_MAPPING_TO_WII = FALSE
    /\ outDirs = {}
    /\ outFiles = {}
    /\ mappings = {}
    /\ visited = {}
    /\ dirpath = <<>>
    /\ filenames = {}
    /\ fname = None
    /\ scratch = {}
    /\ scratchFiles = {}
    /\ ps2_dest_path = <<>>
    /\ new_pngs = {}
    /\ processed = 0
    /\ skipped = 0
    /\ returncode = -1
    /\ raised = ""
    /\ resets = 0
    /\ produced = {}
    /\ ResolveIdle
    /\ LoadIdle

Resolve ==
    /\ pc = "resolve"
    /\ pc' = "resolved"
    /\ \E listing \in SUBSET ResolveUniverse, n \in ResolveNames :
        /\ r_dir' = listing
        /\ r_name' = n
        /\ r_full' = unique_dest({join(ResolveDir, e) : e \in listing}, ResolveDir, n)
    /\ UNCHANGED <<returncode, inDirs, inFiles, produced, APPLY_OPACITY, APPLY_MAPPING_TO_WII, outDirs,
                   outFiles, mappings, visited, dirpath, filenames, fname, scratch,
                   scratchFiles, ps2_dest_path, new_pngs, processed, skipped, raised,
                   resets>>
    /\ UNCHANGED loadVars

SpecResolve == InitResolve /\ [][Resolve]_vars

----------------------------------------------------------------------------
(* A single call of read_mappings, line 103, on a mapping file of up to     *)
(* MaxLoaded entries.                                                       *)

LoadFiles ==
    {[isfile |-> FALSE, entries |-> <<>>]}
        \cup {[isfile |-> TRUE, entries |-> es] : es \in SeqsUpTo(EntryUniverse, MaxLoaded)}

InitLoad ==
    /\ pc = "load"
    /\ inDirs = {<<>>}
    /\ inFiles = {}
    /\ APPLY_OPACITY = TRUE
    /\ APPLY_MAPPING_TO_WII = FALSE
    /\ outDirs = {}
    /\ outFiles = {}
    /\ mappings = {}
    /\ visited = {}
    /\ dirpath = <<>>
    /\ filenames = {}
    /\ fname = None
    /\ scratch = {}
    /\ scratchFiles = {}
    /\ ps2_dest_path = <<>>
    /\ new_pngs = {}
    /\ processed = 0
    /\ skipped = 0
    /\ returncode = -1
    /\ raised = ""
    /\ resets = 0
    /\ produced = {}
    /\ ResolveIdle
    /\ LoadIdle

\* mappings = read_mappings(mapping_path): the dict, or the exception of cfg.read
Load ==
    /\ pc = "load"
    /\ \E file \in LoadFiles :
        /\ m_file' = file
        /\ IF file.isfile /\ cfg_read_raises(file.entries)
           THEN pc' = "crashed" /\ raised' = "cfg.read" /\ mappings' = mappings
           ELSE pc' = "loaded" /\ raised' = raised /\ mappings' = read_mappings(file)
    /\ UNCHANGED <<returncode, inDirs, inFiles, produced, APPLY_OPACITY, APPLY_MAPPING_TO_WII,
                   outDirs, outFiles, visited, dirpath, filenames, fname, scratch,
                   scratchFiles, ps2_dest_path, new_pngs, processed, skipped, resets>>
    /\ UNCHANGED resolveVars

SpecLoad == InitLoad /\ [][Load]_vars

----------------------------------------------------------------------------
(* What the claims speak about. *)

PerFilePcs == {"copy", "opacity", "flat", "split", "tiles", "finish"}

PerFileCalls == {"copy2.scratch", "copy2.flat", "subprocess.run", "shutil.move"}

Images == {f \in inFiles : is_png(f.name)}

\* the inner loop has reached f
Reached(f) == f.dir \in visited /\ (f.dir # dirpath \/ f.name \notin filenames)

\* the flat copy of f has been written
FlatWritten(f) ==
    /\ Reached(f)
    /\ ~(f = CurFile /\ (pc \in {"copy", "opacity", "flat"}
                          \/ raised \in {"copy2.scratch", "copy2.flat"}))

FlatEntries(f) == {e \in outFiles : e.data.src = f /\ e.data.tile = None}

TileEntries(f) == {e \in outFiles : e.data.src = f /\ e.data.tile # None}

\* the files directly inside a directory of the output tree
FilesIn(dir) == {e \in outFiles : dirname(e.path) = dir}

\* the relative directory paths under a root of the output tree
RelDirs(root) ==
    {SubSeq(p, Len(root) + 1, Len(p)) :
        p \in {q \in outDirs : Len(q) >= Len(root) /\ SubSeq(q, 1, Len(root)) = root}}

----------------------------------------------------------------------------
(* C1: once the processing of a file has ended, on every exit path, neither *)
(* its temp_src_dir nor its temp_out exists: a scratch directory exists     *)
(* only while its own file is being processed.                              *)
C1_ScratchReleased ==
    \A t \in scratch : pc \in PerFilePcs /\ t.owner = CurFile

(* C2: every write into the PS2 or Wii tree (flat copy, tile move, mapped   *)
(* rename) targets a path that does not exist at the moment of the write,   *)
(* so no entry is overwritten; every source whose flat copy was written     *)
(* keeps exactly one flat entry, also when names collide.                   *)
C2_WriteIsFresh ==
    \A e \in outFiles' : e \notin outFiles => e.path \notin OutPaths

C2_AllRemain ==
    /\ \A f \in Images : FlatWritten(f) => Cardinality(FlatEntries(f)) = 1
    /\ \A e1, e2 \in outFiles : e1.path = e2.path => e1 = e2
    /\ \A e \in outFiles : e.path \notin outDirs

\* C2: every step writes only to paths that were free, and every flat copy
\* written so far is still there under a name of its own
C2_NeverOverwrites == [][C2_WriteIsFresh]_vars /\ []C2_AllRemain

\* two sources collided in one PS2 directory and both are there, one suffixed
C2_Witness ==
    /\ pc = "done"
    /\ \E e1, e2 \in FilesIn(ps2_root) :
        /\ e1.data.src # e2.data.src
        /\ basename(e1.path) = Name("a", <<>>, ".png")
        /\ basename(e2.path) = Name("a", <<1>>, ".png")

(* C3: once processing has started, no failure of a per-file step stops the *)
(* run: no exception of the scratch copy, the flat copy, the splitter       *)
(* launch or a tile move leaves main().                                     *)
C3_PerFileFailureContained == raised \notin PerFileCalls

(* C4: at the end of a run every mirrored PS2 directory holds exactly one   *)
(* file per image file of its input directory.                              *)
C4_OneFlatEntryPerImage ==
    (pc = "done" \/ (pc = "crashed" /\ resets = 1)) =>
        \A d \in inDirs :
            Cardinality(FilesIn(ps2_sub(d)))
                = Cardinality({f \in Images : f.dir = d})

(* C5: at the end of a run, an image whose resolved name is taken by no     *)
(* other entry of its PS2 directory has its flat entry under that name: the *)
(* mapped base name plus the source's own extension when the mapping has    *)
(* its key, the original file name otherwise, whatever the split did.       *)
C5_ResolvedName(f) ==
    IF HasKey(mappings, base_key(f.name))
    THEN WithExt(Lookup(mappings, base_key(f.name)), splitext_ext(f.name))
    ELSE f.name

C5_FlatNameIsResolvedName ==
    pc = "done" =>
        \A f \in Images :
            LET want == join(ps2_sub(f.dir), C5_ResolvedName(f))
            IN  (/\ want \notin outDirs
                 /\ \A e \in outFiles : e.path = want => e \in FlatEntries(f))
                => \E e \in FlatEntries(f) : e.path = want

(* C6: when the splitter exits non-zero for a file, its flat copy stays in  *)
(* the PS2 tree, nothing is added to the Wii tree for it, the tiles the     *)
(* tool wrote are discarded with both scratch directories, no later step    *)
(* runs for it and the loop goes on with the next file.                     *)
C6_SplitFailureStep ==
    (pc = "split" /\ returncode' = 1) =>
        /\ outFiles' = outFiles
        /\ outDirs' = outDirs
        /\ \E e \in FlatEntries(CurFile)' : e.path = ps2_dest_path
        /\ TileEntries(CurFile)' = {}
        /\ \A t \in scratch' : t.owner # CurFile
        /\ \A t \in scratchFiles' : t.tmp.owner # CurFile
        /\ filenames' = filenames
        /\ fname \notin filenames'
        /\ pc' = (IF filenames = {} THEN "walk" ELSE "file")
        /\ raised' = ""

\* C6: every step in which the splitter exits non-zero keeps the flat copy, adds
\* nothing to the Wii tree, discards the scratch directories and goes to the next file
C6_SplitFailureContained == [][C6_SplitFailureStep]_vars

\* a split failed, and the file after it went through all its steps
C6_Witness ==
    /\ pc = "done"
    /\ processed = 1
    /\ Cardinality(Images) = 2
    /\ \A f \in Images : Cardinality(FlatEntries(f)) = 1
    /\ returncode = 0
    /\ TileEntries(CurFile) # {}

(* C7: at the end of a run every input file is accounted for in the         *)
(* summary: each non-image file is counted as skipped once and each image   *)
(* file as processed once (the program keeps no failure count).             *)
C7_AllCounted ==
    pc = "done" =>
        /\ skipped = Cardinality(inFiles \ Images)
        /\ processed = Cardinality(Images)

(* C8: at the end of the run the relative directory paths under the PS2     *)
(* root and under the Wii root each equal those of the input tree, also     *)
(* when a placed file has the name of a subdirectory.                       *)
C8_DirsMirrored ==
    (pc = "done" \/ raised = "os.makedirs") =>
        /\ RelDirs(ps2_root) = inDirs
        /\ RelDirs(wii_root) = inDirs

(* C9: the output reset runs at most once, before the first per-file step   *)
(* and before any file is placed; after it nothing that was under the       *)
(* output root before the run remains.                                      *)
C9_ResetOnceFirst ==
    /\ resets <= 1
    /\ pc \in PerFilePcs \cup {"walk", "file", "done"} => resets = 1
    /\ resets = 0 =>
        /\ visited = {} /\ fname = None /\ scratch = {}
        /\ \A e \in outFiles : e.data = OldData
    /\ resets = 1 =>
        /\ \A e \in outFiles : e.data # OldData
        /\ outDirs \subseteq {wii_sub(d) : d \in inDirs} \cup {ps2_sub(d) : d \in inDirs}
                                \cup {<<>>}
    /\ (pc = "walk" /\ visited = {}) =>
        outFiles = {} /\ outDirs = {<<>>, wii_root, ps2_root}

\* the run is over, the reset has run and a file has been placed since
C9_Witness ==
    /\ pc = "done"
    /\ resets = 1
    /\ outFiles # {}

(* C10: unique_dest returns the desired name inside the directory when that *)
(* path is free, and otherwise stem_k.ext for the least k >= 1 whose path   *)
(* is free; the returned path does not exist, and the search ends within as *)
(* many steps as the directory has entries.                                 *)
C10_Resolve ==
    pc = "resolved" =>
        LET taken == {join(ResolveDir, e) : e \in r_dir}
            plain == ResolveDir \o <<r_name>>
            numbered(k) == ResolveDir \o
                <<[base |-> r_name.base, sfx |-> r_name.sfx \o <<k>>, ext |-> r_name.ext]>>
        IN  /\ r_full \notin taken
            /\ plain \notin taken => r_full = plain
            /\ plain \in taken =>
                \E k \in 1..Cardinality(r_dir) :
                    /\ r_full = numbered(k)
                    /\ \A j \in 1..(k - 1) : numbered(j) \in taken

\* the desired name and stem_1.ext are taken: the call returns stem_2.ext
C10_Witness ==
    /\ pc = "resolved"
    /\ join(ResolveDir, r_name) \in {join(ResolveDir, e) : e \in r_dir}
    /\ basename(r_full).sfx = r_name.sfx \o <<2>>

(* C11: every entry placed for a source file of input directory d lies      *)
(* directly inside the mirrored directory d of its tree, the flat copy in   *)
(* PS2/d and every tile in Wii/d, whatever the mapping value and the tile   *)
(* name are.                                                                *)
C11_EntriesInMirroredDir ==
    \A e \in outFiles :
        e.data # OldData =>
            dirname(e.path) = IF e.data.tile = None
                              THEN ps2_sub(e.data.src.dir)
                              ELSE wii_sub(e.data.src.dir)

\* the split of the current file succeeded and its processing has ended
SplitSucceeded(f) ==
    /\ f = CurFile
    /\ Reached(f)
    /\ returncode = 0
    /\ pc \in {"file", "walk", "done"} \/ raised = "shutil.move"

(* C12: once the processing of a file whose split succeeded has ended, its  *)
(* mirrored Wii directory holds as many entries made from it as the tool    *)
(* wrote .png files for it, one entry for each of them, and its flat entry  *)
(* exists; this includes a tool that wrote no .png file.                    *)
C12_TilesPlacedOnce ==
    \A f \in Images :
        SplitSucceeded(f) =>
            LET tiles == {p.tile : p \in {q \in produced : q.src = f}}
                placed == {e \in FilesIn(wii_sub(f.dir)) : e.data.src = f}
            IN  /\ Cardinality(placed) = Cardinality(tiles)
                /\ \A t \in tiles : Cardinality({e \in placed : e.data.tile = t}) = 1
                /\ FlatEntries(f) # {}

\* the tile entries a step adds to the output tree
C13_Placed == {e \in outFiles' : e \notin outFiles /\ e.data.tile # None}

\* the tile of e is renamed: mapping-to-Wii is on and the mapping has its source's key
C13_Renamed(e) ==
    APPLY_MAPPING_TO_WII /\ HasKey(mappings, base_key(e.data.src.name))

\* the name wanted for the tile of e
C13_Wanted(e) ==
    IF C13_Renamed(e)
    THEN WithExt(Lookup(mappings, base_key(e.data.src.name)), e.data.tile.ext)
    ELSE e.data.tile

\* e lies under the wanted name, or under it with the least free counter when the
\* wanted name is taken
C13_WantedOrSuffixed(e) ==
    LET dir == wii_sub(e.data.src.dir)
        want == C13_Wanted(e)
        numbered(k) == join(dir, Name(want.base, want.sfx \o <<k>>, want.ext))
    IN  IF join(dir, want) \notin Exists
        THEN e.path = join(dir, want)
        ELSE \E k \in 1..(Cardinality(Exists) + 1) :
                /\ e.path = numbered(k)
                /\ e.path \notin Exists
                /\ \A j \in 1..(k - 1) : numbered(j) \in Exists

(* C13, to the letter: a tile is placed under the mapped base name plus its *)
(* own extension, counter-suffixed on collision, exactly when mapping-to-   *)
(* Wii is on and the mapping has the key of its source; in every other case *)
(* it is placed under the very name the tool gave it.                       *)
C13_TileNameAsStated ==
    [][\A e \in C13_Placed :
          IF C13_Renamed(e)
          THEN C13_WantedOrSuffixed(e)
          ELSE e.path = join(wii_sub(e.data.src.dir), e.data.tile)]_vars

(* C13, with the suffix in both cases: a tile is placed under the mapped    *)
(* base name plus its own extension exactly when mapping-to-Wii is on and   *)
(* the mapping has the key of its source, and under the name the tool gave  *)
(* it otherwise; in both cases the name gets the least free counter suffix  *)
(* when it is taken.                                                        *)
C13_TileName ==
    [][\A e \in C13_Placed : C13_WantedOrSuffixed(e)]_vars

\* mapping-to-Wii is off, the mapping has the key of a source, and a tile of that
\* source lies in the Wii tree under the tool's name with the suffix _1
C13_Witness ==
    /\ ~APPLY_MAPPING_TO_WII
    /\ \E e \in outFiles :
        /\ e.data.tile # None
        /\ HasKey(mappings, base_key(e.data.src.name))
        /\ e.path = join(wii_sub(e.data.src.dir), Candidate(e.data.tile, 1))

\* the entries of the loaded file that no later entry with the same key follows
C14_LastOccurrences ==
    {i \in DOMAIN m_file.entries :
        \A j \in DOMAIN m_file.entries :
            j > i => optionxform(m_file.entries[j].key) # optionxform(m_file.entries[i].key)}

(* C14: read_mappings never fails on a file with duplicate keys: it returns *)
(* the dict in which every key, trimmed and lowercased, holds the value of  *)
(* its last occurrence without its extension; an absent file gives the      *)
(* empty dict.                                                              *)
C14_LastOccurrenceWins ==
    pc # "load" =>
        /\ raised = ""
        /\ mappings = {<<KeyStem(optionxform(m_file.entries[i].key)),
                         splitext_stem(m_file.entries[i].val)>> : i \in C14_LastOccurrences}

\* the code point of the first character of a file name of the input tree: the
\* names of the model differ there, so it orders them lexicographically
C15_Ord(n) ==
    CASE n.base = "B" -> 66
      [] n.base = "a" -> 97
      [] n.base = "c" -> 99
      [] OTHER -> 0

\* e2 holds the name of e1 with a higher counter suffix, in the same directory
C15_Behind(e1, e2) ==
    LET n1 == basename(e1.path)
        n2 == basename(e2.path)
    IN  /\ dirname(e1.path) = dirname(e2.path)
        /\ n1.base = n2.base /\ n1.ext = n2.ext
        /\ Len(n2.sfx) = 1
        /\ n1.sfx = <<>> \/ (Len(n1.sfx) = 1 /\ n1.sfx[1] < n2.sfx[1])

(* C15: which source receives which counter suffix is fixed by the          *)
(* lexicographic order of the names, not by the order in which the file     *)
(* system lists a directory: of two entries of one output directory made    *)
(* from different sources of one input directory and contending for one     *)
(* name, the entry of the lexicographically smaller source holds the lower  *)
(* suffix, so equal inputs give equal output trees.                         *)
C15_SuffixByNameOrder ==
    \A e1, e2 \in outFiles :
        (/\ e1.data # OldData /\ e2.data # OldData
         /\ e1.data.src # e2.data.src
         /\ e1.data.src.dir = e2.data.src.dir
         /\ (e1.data.tile = None) = (e2.data.tile = None)
         /\ C15_Behind(e1, e2))
        => C15_Ord(e1.data.src.name) < C15_Ord(e2.data.src.name)

\* the files of the output tree made in this run
C16_Made == {e \in outFiles : e.data # OldData}

(* C16: the opacity filter touches an image at most once and only its       *)
(* scratch copy, before the flat copy and the split: no file made from an   *)
(* image has its alpha scaled twice, the flat copy holds the content of the *)
(* scratch copy the splitter is given, every tile is made from the content  *)
(* of its source's flat copy, and with APPLY_OPACITY off every file made    *)
(* has the alpha of its source.                                             *)
C16_FilteredOnceBeforeFanOut ==
    /\ \A e \in C16_Made : e.data.alpha \in {"full", "half", "bad"}
    /\ pc = "split" =>
            /\ FlatEntries(CurFile) # {}
            /\ \A e \in FlatEntries(CurFile) : e.data.alpha = TempSrc.data.alpha
    /\ \A e \in C16_Made, t \in C16_Made :
            (e.data.src = t.data.src) => e.data.alpha = t.data.alpha
    /\ \A t \in scratchFiles :
            t.tmp.kind = "out" => t.data.alpha \in {e.data.alpha : e \in FlatEntries(t.data.src)}
    /\ ~APPLY_OPACITY =>
            /\ \A e \in C16_Made : e.data.alpha = "full"
            /\ \A t \in scratchFiles : t.data.alpha = "full"

\* the filter is on and has halved the alpha of an image: its flat copy and a tile
\* of it both hold the halved content
C16_Witness ==
    /\ APPLY_OPACITY
    /\ \E e \in outFiles, t \in outFiles :
        /\ e.data.src = t.data.src
        /\ e.data.tile = None /\ t.data.tile # None
        /\ e.data.alpha = "half" /\ t.data.alpha = "half"

(* C17: the run leaves the tree under INPUT_ROOT as it found it: no step    *)
(* assigns inDirs or inFiles, and no file the run writes, moves or renames  *)
(* lies under INPUT_ROOT.                                                   *)
C17_InputTreeUntouched ==
    \A e \in outFiles : input_root \notin Prefixes(e.path)

\* the step of a file whose mapping has its key and whose flat copy is not renamed
C18_RenameFailureStep ==
    (/\ pc = "finish"
     /\ HasKey(mappings, base_key(fname))
     /\ ps2_dest_path' = ps2_dest_path) =>
        /\ outFiles' = outFiles
        /\ outDirs' = outDirs
        /\ \E e \in FlatEntries(CurFile) : e.path = ps2_dest_path
        /\ processed' = processed + 1
        /\ raised' = ""
        /\ filenames' = filenames
        /\ pc' \in {"file", "walk"}

(* C18: when os.replace fails for the mapped rename of a flat copy, the     *)
(* copy stays in the PS2 tree under the name it had, the output tree is     *)
(* otherwise unchanged, the file is counted as processed and the loop goes  *)
(* on with the next file.                                                   *)
C18_RenameFailureSwallowed == [][C18_RenameFailureStep]_vars

\* a finished run in which every image was processed and an image whose key the
\* mapping has still lies in its PS2 directory under its own name
C18_Witness ==
    /\ pc = "done"
    /\ processed = Cardinality(Images)
    /\ \E f \in Images :
        /\ HasKey(mappings, base_key(f.name))
        /\ \E e \in FlatEntries(f) : e.path = join(ps2_sub(f.dir), f.name)

\* the step in which find_tool_exe raises
C19_AbortStep ==
    (pc = "start" /\ raised' = "find_tool_exe") =>
        /\ pc' = "crashed"
        /\ outDirs' = outDirs
        /\ outFiles' = outFiles

(* C19: when find_tool_exe raises, because the tool folder is missing or    *)
(* holds no .exe, the run ends there: the output root has not been reset,   *)
(* what an earlier run left under it is unchanged, and no directory or file *)
(* of the input tree has been visited, counted or copied.                   *)
C19_AbortBeforeReset ==
    /\ [][C19_AbortStep]_vars
    /\ [](raised = "find_tool_exe" =>
            /\ pc = "crashed"
            /\ resets = 0
            /\ visited = {} /\ fname = None
            /\ processed = 0 /\ skipped = 0
            /\ scratch = {} /\ scratchFiles = {}
            /\ \A e \in outFiles : e.data = OldData)

\* the tool was not found and the tree of an earlier run is still there
C19_Witness ==
    /\ raised = "find_tool_exe"
    /\ \E e \in outFiles : e.data = OldData
    /\ join(ps2_root, Name("old", <<>>, "")) \in outDirs

====
